---- MODULE Spec2Model ----
(***************************************************************************)
(* kibctl: a command-line client for Kibana dashboards.                    *)
(*                                                                         *)
(* The model follows one process invocation of one of the three            *)
(* subcommands (dashboard import / export NAME / list PATTERN) from the    *)
(* parsed command line up to the process exit.  Every HTTP round-trip is   *)
(* one step; the server's answer is chosen by the environment.  Strings    *)
(* that the code transforms (index-pattern names inside visState) are      *)
(* sequences of one-character strings, so that escaping, unescaping and    *)
(* substring search are computed and not assumed.                          *)
(***************************************************************************)
EXTENDS Integers, Sequences, FiniteSets, TLC

(***************************************************************************)
(* Bounds of the model.                                                    *)
(***************************************************************************)
\* objects in the document the dashboard-export endpoint returns
MaxObjects == 2
\* dashboards a search may return (0, 1, more than 1)
MaxMatches == 2

(***************************************************************************)
(* Characters and the inputs drawn from them.                              *)
(***************************************************************************)
Quote == "\""
Backslash == "\\"

\* index_pattern values a visualization's visState may carry
IndexNames ==
    { <<"a">>, <<"A">>, <<"a", "b">>, <<"a", Quote, "b">>, <<"a", Backslash>> }

\* titles of the index patterns the server may hold
TitlePool == { <<"a">>, <<"a", "b">>, <<"A">> }

NoErr == "none"

\* the injective sequences enumerating a finite set
SeqsOf(S) ==
    { s \in [1..Cardinality(S) -> S] :
        \A i, j \in 1..Cardinality(S) : i # j => s[i] # s[j] }

Range(s) == { s[i] : i \in DOMAIN s }

(***************************************************************************)
(* Saved objects.  A record of the export document: its type, its title,   *)
(* and, for a visualization, whether attributes.visState is present and    *)
(* whether that state has params.index_pattern, with its value.            *)
(***************************************************************************)
DashboardObject ==
    [type |-> "dashboard", title |-> <<>>,
     hasVis |-> FALSE, hasIndex |-> FALSE, index |-> <<>>]

VisualizationNoIndex ==
    [type |-> "visualization", title |-> <<>>,
     hasVis |-> TRUE, hasIndex |-> FALSE, index |-> <<>>]

Visualization(name) ==
    [type |-> "visualization", title |-> <<>>,
     hasVis |-> TRUE, hasIndex |-> TRUE, index |-> name]

IndexPatternObject(t) ==
    [type |-> "index-pattern", title |-> t,
     hasVis |-> FALSE, hasIndex |-> FALSE, index |-> <<>>]

ExportObjects ==
    {DashboardObject, VisualizationNoIndex}
        \cup { Visualization(n) : n \in IndexNames }

\* the documents the dashboard-export endpoint may return
ExportDocuments ==
    UNION { [1..n -> ExportObjects] : n \in 0..MaxObjects }

(***************************************************************************)
(* The text of attributes.visState as gjson hands it to the scanner        *)
(* (val.String(): the outer JSON string already decoded), i.e. the nested  *)
(* JSON document.  Structure is kept as two tokens around the string       *)
(* literal of params.index_pattern, whose characters are JSON-escaped.     *)
(***************************************************************************)
RECURSIVE JsonEscape(_)
JsonEscape(s) ==
    IF s = <<>> THEN <<>>
    ELSE (IF s[1] = Quote \/ s[1] = Backslash
             THEN <<Backslash, s[1]>>
             ELSE <<s[1]>>) \o JsonEscape(Tail(s))

OpenIndexPattern == "{params:{index_pattern:"
CloseObjects == "}}"
NoIndexPattern == "{params:{}}"

VisStateText(o) ==
    IF o.hasIndex
        THEN <<OpenIndexPattern, Quote>> \o JsonEscape(o.index)
                 \o <<Quote, CloseObjects>>
        ELSE <<NoIndexPattern>>

(***************************************************************************)
(* client.scanForIndexPatterns and the library calls it makes.             *)
(***************************************************************************)
\* strings.Replace(val.String(), `\"`, `"`, -1): left to right, no overlap
RECURSIVE StringsReplace(_)
StringsReplace(s) ==
    IF s = <<>> THEN <<>>
    ELSE IF Len(s) >= 2 /\ s[1] = Backslash /\ s[2] = Quote
        THEN <<Quote>> \o StringsReplace(SubSeq(s, 3, Len(s)))
        ELSE <<s[1]>> \o StringsReplace(Tail(s))

\* the number of backslashes that end s[1..i]
RECURSIVE BackslashesBefore(_, _)
BackslashesBefore(s, i) ==
    IF i >= 1 /\ s[i] = Backslash THEN 1 + BackslashesBefore(s, i - 1) ELSE 0

\* gjson's string scan from position i: the position of the first quote that
\* an even number of backslashes precedes, or 0 when the text ends first
RECURSIVE ClosingQuote(_, _)
ClosingQuote(s, i) ==
    IF i > Len(s) THEN 0
    ELSE IF s[i] = Quote /\ BackslashesBefore(s, i - 1) % 2 = 0 THEN i
    ELSE ClosingQuote(s, i + 1)

\* gjson's unescape of the characters between the quotes
RECURSIVE Unescape(_)
Unescape(s) ==
    IF s = <<>> THEN <<>>
    ELSE IF s[1] = Backslash /\ Len(s) >= 2
        THEN <<s[2]>> \o Unescape(SubSeq(s, 3, Len(s)))
        ELSE <<s[1]>> \o Unescape(Tail(s))

\* gjson.Get(visualisation, "params.index_pattern"): Exists() and String()
GjsonIndexPattern(text) ==
    IF text = <<>> \/ text[1] # OpenIndexPattern \/ Len(text) < 2
            \/ text[2] # Quote
        THEN [exists |-> FALSE, str |-> <<>>]
        ELSE LET close == ClosingQuote(text, 3)
             IN  IF close = 0
                    THEN [exists |-> FALSE, str |-> <<>>]
                    ELSE [exists |-> TRUE,
                          str |-> Unescape(SubSeq(text, 3, close - 1))]

\* a scanner whose map is made anew for every visualization: the last wins
AddNameLastWins(names, n) == {n}

\* names[index.String()] = struct{}{}
AddName(names, n) == names \cup {n}

\* the loop over objects.#.attributes.visState, in document order
RECURSIVE ScanFrom(_, _, _)
ScanFrom(objects, i, names) ==
    IF i > Len(objects) THEN names
    ELSE IF ~objects[i].hasVis THEN ScanFrom(objects, i + 1, names)
    ELSE LET visualisation == StringsReplace(VisStateText(objects[i]))
             index == GjsonIndexPattern(visualisation)
         IN  ScanFrom(objects, i + 1,
                      IF index.exists THEN AddName(names, index.str)
                                      ELSE names)

\* the key set of the map the scanner builds
ScanNames(objects) == ScanFrom(objects, 1, {})

\* the list built by ranging over the map: any order of its keys
scanForIndexPatterns(objects) == SeqsOf(ScanNames(objects))

(***************************************************************************)
(* The state of one invocation.                                            *)
(***************************************************************************)
VARIABLES
    cmd,          \* the subcommand: "import", "export" or "list"
    host,         \* main.go globals bound to the flags; "" when not given
    username,
    password,
    verbose,
    arg,          \* c.Args().First(); "" when not given
    serverTitles, \* titles of the index patterns the server holds
    pc,           \* position of the handler
    trips,        \* the network round-trips so far, with the server's answers
    result,       \* client.export: the dashboards the search returned
    dashboard,    \* client.export: the objects of the local `dashboard`
    indiceNames,  \* client.export: the list the scanner returned
    idx,          \* client.export: position of the range loop in indiceNames
    err,          \* the error the handler ends with, NoErr when none
    stdout,       \* what has been written to os.Stdout
    exitCode      \* the process exit code, read when pc = "done"

vars ==
    <<cmd, host, username, password, verbose, arg, serverTitles, pc, trips,
      result, dashboard, indiceNames, idx, err, stdout, exitCode>>

config == <<cmd, host, username, password, verbose, arg, serverTitles>>

Init ==
    /\ cmd \in {"import", "export", "list"}
    /\ host \in {"", "kibana"}
    /\ username \in {"", "elastic"}
    /\ password \in {"", "secret"}
    /\ verbose \in BOOLEAN
    /\ arg \in {"", "Sales"}
    /\ serverTitles \in SUBSET TitlePool
    /\ pc = "start"
    /\ trips = <<>>
    /\ result = <<>>
    /\ dashboard = <<>>
    /\ indiceNames = <<>>
    /\ idx = 1
    /\ err = NoErr
    /\ stdout = <<>>
    /\ exitCode = 0

(***************************************************************************)
(* main.go helpers.                                                        *)
(***************************************************************************)
\* cmdLogger.Printf: the logger writes to os.Stdout, only when verbose
Printf(out, text) ==
    IF verbose
        THEN Append(out, [kind |-> "log", text |-> text, body |-> <<>>])
        ELSE out

\* checkGlobals: the message of the exit error, NoErr when all are set
checkGlobals ==
    IF host = "" THEN "kibana host not defined"
    ELSE IF username = "" THEN "kibana username not defined"
    ELSE IF password = "" THEN "kibana password not defined"
    ELSE NoErr

(***************************************************************************)
(* The server, seen through the requests the client sends.                 *)
(***************************************************************************)
Trip(kind, quoted, text, id, name, status, body) ==
    [kind |-> kind, quoted |-> quoted, text |-> text, id |-> id,
     name |-> name, status |-> status, body |-> body]

\* _find?type=dashboard: the saved_objects of a 200 answer with n matches
DashboardsFound(n) == [i \in 1..n |-> [id |-> i, title |-> "Sales"]]

\* n is found in t (search_fields=title&search="n": title-substring match)
IsSubstring(n, t) ==
    \E i \in 0..(Len(t) - Len(n)) : SubSeq(t, i + 1, i + Len(n)) = n

\* _find?type=index-pattern: the saved_objects of a 200 answer, in any order
IndexPatternsFound(name) ==
    { [i \in DOMAIN s |-> IndexPatternObject(s[i])] :
        s \in SeqsOf({ t \in serverTitles : IsSubstring(name, t) }) }

\* the error of one GET as the client functions report it
TransportError == "transport error"

(***************************************************************************)
(* client.searchDashboard: the error it returns for an answer.             *)
(***************************************************************************)
searchDashboardErr(status) ==
    CASE status = "transport" -> TransportError
      [] status = "status" -> "failed to search dashboard name"
      [] status = "parse" -> "could not parse dashboard definition"
      [] OTHER -> NoErr

\* a cardinality rule without its second test: the first match is taken
dashboardCardinalityErrFirstMatch(n) ==
    IF n = 0 THEN "no dashboard found matching" ELSE NoErr

(***************************************************************************)
(* client.export, lines 56-61: the cardinality rule on the search result.  *)
(***************************************************************************)
dashboardCardinalityErr(n) ==
    IF n = 0 THEN "no dashboard found matching"
    ELSE IF n > 1 THEN "more than one dashboard found matching"
    ELSE NoErr

\* a fetch that does not test the status code
getDashboardErrNoStatus(status) ==
    IF status = "transport" THEN TransportError ELSE NoErr

\* a lookup without the test for more than one match: the first is taken
getIndexPatternErrFirstMatch(status, patterns) ==
    CASE status = "transport" -> TransportError
      [] status = "status" -> "failed to retrieve index-pattern title"
      [] status = "ok" /\ Len(patterns) = 0 -> "no index-pattern found matching"
      [] OTHER -> NoErr

(***************************************************************************)
(* client.getDashboard and client.getIndexPattern: the error returned.     *)
(***************************************************************************)
getDashboardErr(status) ==
    CASE status = "transport" -> TransportError
      [] status = "status" -> "failed to retrieve dashboard id"
      [] OTHER -> NoErr

getIndexPatternErr(status, patterns) ==
    CASE status = "transport" -> TransportError
      [] status = "status" -> "failed to retrieve index-pattern title"
      [] status = "ok" /\ Len(patterns) = 0 -> "no index-pattern found matching"
      [] status = "ok" /\ Len(patterns) > 1 ->
            "More than one index-pattern found matching"
      [] OTHER -> NoErr

\* an append that puts the record first
SetRawBytesFirst(objects, raw) == <<raw>> \o objects

\* sjson.SetRawBytes(dashboard, "objects.-1", indexPattern)
SetRawBytes(objects, raw) == Append(objects, raw)

(***************************************************************************)
(* The end of a handler: cli.NewExitError(e, code) makes app.Run exit the  *)
(* process with that code; a nil error exits 0.                            *)
(***************************************************************************)
Exit(e, code) ==
    /\ err' = e
    /\ exitCode' = code
    /\ pc' = "done"

Document(objects) == [kind |-> "document", text |-> "", body |-> objects]

Table(rows) == [kind |-> "table", text |-> "", body |-> rows]

(***************************************************************************)
(* dashboard export NAME                                                   *)
(***************************************************************************)
\* main.export, lines 129-135: validation
ExportStart ==
    /\ pc = "start" /\ cmd = "export"
    /\ IF checkGlobals # NoErr THEN Exit(checkGlobals, 1)
       ELSE IF arg = "" THEN Exit("dashboard name missing", 1)
       ELSE /\ pc' = "search"
            /\ UNCHANGED <<err, exitCode>>
    /\ UNCHANGED <<config, trips, result, dashboard, indiceNames, idx, stdout>>

\* client.export, lines 51-62: the search round-trip and the cardinality rule
ExportSearch ==
    /\ pc = "search" /\ cmd = "export"
    /\ \E status \in {"ok", "status", "transport", "parse"}, n \in 0..MaxMatches :
        /\ status # "ok" => n = 0
        /\ LET found == IF status = "ok" THEN DashboardsFound(n) ELSE <<>>
               e == IF searchDashboardErr(status) # NoErr
                        THEN searchDashboardErr(status)
                        ELSE dashboardCardinalityErr(Len(found))
               logged == Printf(stdout, "searching dashboards matching name")
           IN  /\ trips' = Append(trips,
                       Trip("search", TRUE, arg, 0, <<>>, status, found))
               /\ IF e # NoErr
                     THEN /\ Exit(e, 2)
                          /\ stdout' = logged
                          /\ UNCHANGED result
                     ELSE /\ result' = found
                          /\ stdout' = Printf(logged, "found dashboard id")
                          /\ pc' = "fetch"
                          /\ UNCHANGED <<err, exitCode>>
    /\ UNCHANGED <<config, dashboard, indiceNames, idx>>

\* client.export, lines 64-73: the dashboard-export fetch and the scan
ExportGetDashboard ==
    /\ pc = "fetch" /\ cmd = "export"
    /\ \E status \in {"ok", "status", "transport"}, doc \in ExportDocuments :
        /\ status # "ok" => doc = <<>>
        /\ LET e == getDashboardErr(status)
               logged == Printf(stdout,
                                "retrieving partial dashboard export from api...")
           IN  /\ trips' = Append(trips,
                       Trip("fetch", FALSE, "", result[1].id, <<>>, status, doc))
               /\ stdout' = logged
               /\ IF e # NoErr
                     THEN /\ Exit(e, 2)
                          /\ UNCHANGED <<dashboard, indiceNames>>
                     ELSE /\ dashboard' = doc
                          /\ indiceNames' \in scanForIndexPatterns(doc)
                          /\ pc' = "lookup"
                          /\ UNCHANGED <<err, exitCode>>
    /\ UNCHANGED <<config, result, idx>>

\* client.export, lines 75-84: one pass of the loop over indiceNames
ExportGetIndexPattern ==
    /\ pc = "lookup" /\ cmd = "export"
    /\ idx <= Len(indiceNames)
    /\ \E status \in {"ok", "status", "transport"} :
        \E patterns \in (IF status = "ok"
                            THEN IndexPatternsFound(indiceNames[idx])
                            ELSE {<<>>}) :
            LET name == indiceNames[idx]
                e == getIndexPatternErr(status, patterns)
            IN  /\ trips' = Append(trips,
                        Trip("lookup", TRUE, "", 0, name, status, patterns))
                /\ IF e # NoErr
                      THEN /\ Exit(e, 2)
                           /\ UNCHANGED <<dashboard, idx, stdout>>
                      ELSE /\ stdout' = Printf(stdout, "adding index-template")
                           /\ dashboard' = SetRawBytes(dashboard, patterns[1])
                           /\ idx' = idx + 1
                           /\ UNCHANGED <<pc, err, exitCode>>
    /\ UNCHANGED <<config, result, indiceNames>>

\* client.export, line 86, and main.export, lines 140-141
ExportWrite ==
    /\ pc = "lookup" /\ cmd = "export"
    /\ idx > Len(indiceNames)
    /\ stdout' = Append(stdout, Document(dashboard))
    /\ Exit(NoErr, 0)
    /\ UNCHANGED <<config, trips, result, dashboard, indiceNames, idx>>

(***************************************************************************)
(* dashboard list PATTERN                                                  *)
(***************************************************************************)
\* main.list, lines 145-148: validation (the pattern is not checked)
ListStart ==
    /\ pc = "start" /\ cmd = "list"
    /\ IF checkGlobals # NoErr THEN Exit(checkGlobals, 1)
       ELSE /\ pc' = "search"
            /\ UNCHANGED <<err, exitCode>>
    /\ UNCHANGED <<config, trips, result, dashboard, indiceNames, idx, stdout>>

\* main.list, lines 149-157: the search round-trip and the table
ListSearch ==
    /\ pc = "search" /\ cmd = "list"
    /\ \E status \in {"ok", "status", "transport", "parse"}, n \in 0..MaxMatches :
        /\ status # "ok" => n = 0
        /\ LET found == IF status = "ok" THEN DashboardsFound(n) ELSE <<>>
               e == searchDashboardErr(status)
           IN  /\ trips' = Append(trips,
                       Trip("search", FALSE, arg, 0, <<>>, status, found))
               /\ IF e # NoErr
                     THEN /\ Exit(e, 2)
                          /\ UNCHANGED <<result, stdout>>
                     ELSE /\ result' = found
                          /\ stdout' = Append(stdout, Table(found))
                          /\ Exit(NoErr, 0)
    /\ UNCHANGED <<config, dashboard, indiceNames, idx>>

(***************************************************************************)
(* dashboard import                                                        *)
(***************************************************************************)
\* main._import and client._import: no validation; with no host the URL has
\* no scheme and http.DefaultClient.Do fails before anything is sent
Import ==
    /\ pc = "start" /\ cmd = "import"
    /\ \/ \E status \in {"ok", "status", "transport"} :
            /\ host = "" => status = "transport"
            /\ trips' = IF host = "" THEN trips
                        ELSE Append(trips,
                               Trip("import", FALSE, "", 0, <<>>, status, <<>>))
            /\ IF status = "transport"
                  THEN /\ Exit(TransportError, 2)
                       /\ stdout' = Printf(stdout, "importing dashboard")
                  ELSE IF status = "status"
                  THEN /\ Exit("failed to import dashboard", 2)
                       /\ stdout' = Printf(stdout, "importing dashboard")
                  ELSE /\ Exit(NoErr, 0)
                       /\ stdout' = Printf(Printf(stdout, "importing dashboard"),
                                           "SUCCESS")
       \/ \* ioutil.ReadAll(os.Stdin) fails
          /\ Exit("could not read import input", 2)
          /\ UNCHANGED <<trips, stdout>>
    /\ UNCHANGED <<config, result, dashboard, indiceNames, idx>>

Next ==
    \/ ExportStart
    \/ ExportSearch
    \/ ExportGetDashboard
    \/ ExportGetIndexPattern
    \/ ExportWrite
    \/ ListStart
    \/ ListSearch
    \/ Import

Spec == Init /\ [][Next]_vars

(***************************************************************************)
(* Vocabulary of the properties.                                           *)
(***************************************************************************)
\* the documents written to standard output
Written == { stdout[k].body : k \in { j \in DOMAIN stdout : stdout[j].kind = "document" } }

\* the document the dashboard-export endpoint returned
FetchOk == cmd = "export" /\ Len(trips) >= 2 /\ trips[2].status = "ok"
Fetched == trips[2].body

\* the export command has ended with success
Succeeded == cmd = "export" /\ pc = "done" /\ exitCode = 0

\* the index_pattern values the visualizations of a document carry
Referenced(objects) ==
    { objects[i].index :
        i \in { j \in DOMAIN objects : objects[j].hasVis /\ objects[j].hasIndex } }

\* a round-trip that did not give the one answer the export needs
TripFailed(t) ==
    \/ t.status # "ok"
    \/ t.kind = "lookup" /\ Len(t.body) # 1
    \/ t.kind = "search" /\ t.quoted /\ Len(t.body) # 1

SameRequest(a, b) ==
    /\ a.kind = b.kind /\ a.quoted = b.quoted /\ a.text = b.text
    /\ a.id = b.id /\ a.name = b.name

\* the error the specification names for a failed dependency lookup
LookupErrorOf(t) ==
    CASE t.status = "transport" -> "transport error"
      [] t.status = "status" -> "failed to retrieve index-pattern title"
      [] t.status = "ok" /\ Len(t.body) = 0 -> "no index-pattern found matching"
      [] OTHER -> "More than one index-pattern found matching"

(***************************************************************************)
(* C1: if a dependency lookup fails (no match, more than one match, a      *)
(* non-success answer or a transport error), export ends with that error,  *)
(* the process exits with code 2, and no document is written to standard   *)
(* output, whatever had been appended before.                              *)
(***************************************************************************)
C1_FailedLookupNoDocument ==
    \A i \in DOMAIN trips :
        (trips[i].kind = "lookup" /\ TripFailed(trips[i])) =>
            /\ pc = "done"
            /\ exitCode = 2
            /\ err = LookupErrorOf(trips[i])
            /\ Written = {}

\* a lookup answered with two matches after an earlier record was appended
C1_Witness ==
    /\ Len(trips) >= 4
    /\ trips[Len(trips)].kind = "lookup"
    /\ Len(trips[Len(trips)].body) > 1
    /\ Len(dashboard) > Len(Fetched)

(***************************************************************************)
(* C2: a successful export writes a document whose objects array is as     *)
(* long as the fetched one plus the number of distinct index-pattern names *)
(* its visualizations carry.                                               *)
(***************************************************************************)
C2_LengthIsOriginalPlusDistinctNames ==
    Succeeded =>
        \A doc \in Written :
            Len(doc) = Len(Fetched) + Cardinality(Referenced(Fetched))

(***************************************************************************)
(* C3: when the dashboard search of export returns no match, export ends   *)
(* with "no dashboard found matching"; when it returns more than one, with *)
(* "more than one dashboard found matching"; in both cases the search is   *)
(* the only request ever issued and no document is written.                *)
(***************************************************************************)
C3_ExactlyOneDashboard ==
    (cmd = "export" /\ Len(trips) >= 1 /\ trips[1].status = "ok"
        /\ Len(trips[1].body) # 1) =>
            /\ pc = "done"
            /\ exitCode = 2
            /\ err = (IF Len(trips[1].body) = 0
                         THEN "no dashboard found matching"
                         ELSE "more than one dashboard found matching")
            /\ Len(trips) = 1
            /\ Written = {}

\* the search of an export answered with more than one dashboard
C3_Witness ==
    /\ cmd = "export" /\ pc = "done"
    /\ Len(trips) = 1 /\ trips[1].status = "ok" /\ Len(trips[1].body) > 1

(***************************************************************************)
(* C4: in a successful export with N lookups, the one document written     *)
(* keeps every fetched object at its position, and its N further elements  *)
(* are, one per name, the record the lookup of that name returned.         *)
(***************************************************************************)
C4_OriginalKeptRecordsAppended ==
    Succeeded =>
        /\ Cardinality(Written) = 1
        /\ \A doc \in Written :
            LET N == Len(indiceNames)
            IN  /\ Len(trips) = 2 + N
                /\ Len(doc) = Len(Fetched) + N
                /\ \A i \in DOMAIN Fetched : doc[i] = Fetched[i]
                /\ \A k \in 1..N :
                    /\ trips[2 + k].kind = "lookup"
                    /\ trips[2 + k].name = indiceNames[k]
                    /\ doc[Len(Fetched) + k] = trips[2 + k].body[1]

\* a successful export of a non-empty document with two appended records
C4_Witness ==
    /\ Succeeded
    /\ Len(indiceNames) = 2
    /\ Len(Fetched) >= 2
    /\ trips[3].body # trips[4].body

(***************************************************************************)
(* C5: in the document a successful export writes, every index_pattern     *)
(* value a visualization carries is the title of exactly one element of    *)
(* type index-pattern.                                                     *)
(***************************************************************************)
C5_EveryReferenceResolved ==
    Succeeded =>
        \A doc \in Written :
            \A n \in Referenced(doc) :
                Cardinality({ i \in DOMAIN doc :
                    doc[i].type = "index-pattern" /\ doc[i].title = n }) = 1

(***************************************************************************)
(* C6: the list the scanner returns holds exactly the distinct             *)
(* index_pattern values of the fetched document's visualizations, each     *)
(* once.                                                                   *)
(***************************************************************************)
C6_ScannerReturnsReferencedNames ==
    (FetchOk /\ pc \in {"lookup", "done"}) =>
        /\ Range(indiceNames) = Referenced(Fetched)
        /\ Len(indiceNames) = Cardinality(Referenced(Fetched))

(***************************************************************************)
(* C7: the names the scanner returned are the names a second scan of the   *)
(* fetched document yields, and the names a scan of every permutation of   *)
(* its objects yields.                                                     *)
(***************************************************************************)
C7_ScanOrderIndependent ==
    (FetchOk /\ pc \in {"lookup", "done"}) =>
        /\ ScanNames(Fetched) = Range(indiceNames)
        /\ \A p \in Permutations(DOMAIN Fetched) :
            ScanNames([i \in DOMAIN Fetched |-> Fetched[p[i]]])
                = Range(indiceNames)

\* a scanned document whose visualizations carry two different names
C7_Witness ==
    /\ FetchOk /\ pc = "lookup"
    /\ Len(Fetched) >= 2
    /\ Fetched[1].hasIndex /\ Fetched[2].hasIndex
    /\ Fetched[1].index # Fetched[2].index
    /\ Len(indiceNames) = 2

(***************************************************************************)
(* C8: every subcommand exits with 1 when host, username, password or its  *)
(* argument is missing, and then no request was issued; otherwise with 2   *)
(* when the operation failed and with 0 when it succeeded.                 *)
(***************************************************************************)
MissingInput ==
    \/ host = "" \/ username = "" \/ password = ""
    \/ cmd \in {"export", "list"} /\ arg = ""

C8_ExitCodes ==
    pc = "done" =>
        IF MissingInput THEN exitCode = 1 /\ trips = <<>>
        ELSE IF err # NoErr THEN exitCode = 2
        ELSE exitCode = 0

(***************************************************************************)
(* C9: a successful export has issued exactly 2 + D round-trips, D the     *)
(* number of distinct index_pattern values of the fetched document's       *)
(* visualizations: one search, one fetch, and one lookup for each name.    *)
(***************************************************************************)
C9_RoundTrips ==
    Succeeded =>
        LET D == Cardinality(Referenced(Fetched))
        IN  /\ Len(trips) = 2 + D
            /\ trips[1].kind = "search"
            /\ trips[2].kind = "fetch"
            /\ { trips[i].name : i \in 3..Len(trips) } = Referenced(Fetched)

(***************************************************************************)
(* C10: the requests of an export are issued one at a time in the order    *)
(* search, fetch, lookups; no request is issued twice; the step whose      *)
(* round-trip fails ends the export with an error and exit code 2, and     *)
(* after a failed round-trip no request is issued.                         *)
(***************************************************************************)
C10_FailFastNoRetry ==
    [][cmd = "export" =>
        /\ (\E i \in DOMAIN trips : TripFailed(trips[i])) => trips' = trips
        /\ trips' # trips =>
            /\ Len(trips') = Len(trips) + 1
            /\ SubSeq(trips', 1, Len(trips)) = trips
            /\ LET t == trips'[Len(trips')]
               IN  /\ Len(trips) = 0 => t.kind = "search"
                   /\ Len(trips) = 1 => t.kind = "fetch"
                   /\ Len(trips) >= 2 => t.kind = "lookup"
                   /\ \A i \in DOMAIN trips : ~SameRequest(trips[i], t)
                   /\ TripFailed(t) =>
                        pc' = "done" /\ err' # NoErr /\ exitCode' = 2
    ]_vars

\* an export ended by a transport error of its third or a later round-trip
C10_Witness ==
    /\ cmd = "export" /\ pc = "done"
    /\ Len(trips) >= 3
    /\ trips[Len(trips)].status = "transport"
    /\ err = TransportError

====
